---- MODULE Spec2Model ----
(***************************************************************************)
(* Model of create_rotating_logo.py: a single-run script that opens a      *)
(* logo image, converts it to RGBA when its mode is not RGBA, builds       *)
(* num_frames rotated copies of it and saves them as a looping GIF, then   *)
(* prints a confirmation.                                                  *)
(*                                                                         *)
(* Images are records [mode, size, data, ops]:                             *)
(*   mode  the PIL colour mode ("L", "LA", "RGB", "RGBA");                 *)
(*   size  <<width, height>>;                                              *)
(*   data  the pixels in row-major order, each a tuple of channel values;  *)
(*   ops   the rotations that went through the bicubic resampler, in the   *)
(*         order applied.  While ops = <<>> the pixels are exactly data;   *)
(*         otherwise the pixels are the (uninterpreted) result of          *)
(*         resampling data by these angles.                                *)
(* Angles are exact rationals <<numerator, denominator>> in lowest terms.  *)
(* The frame counts of the model are those for which 360 / num_frames and  *)
(* its multiples are exact in binary floating point, so the rational is    *)
(* the very value the script computes.                                     *)
(***************************************************************************)
EXTENDS Integers, Sequences, FiniteSets

\* Largest width and height of a modelled input image.
MaxDim == 2
\* Frame counts 1..MaxFrames are modelled beside the script's own 36.
MaxFrames == 5

\* ------------------------------------------------------------ configuration

\* The script's frame count (line 13).
ConfiguredFrames == 36
\* Degrees in a full turn, the literal of line 16.
FullTurn == 360
\* duration=50 (line 27) and loop=0 (line 28).
duration == 50
loop == 0
output_path == "/data/users/liuzhou/online/OpenPrism/static/logo-rotating.gif"

\* ------------------------------------------------------- rational numbers

RECURSIVE Gcd(_, _)
Gcd(a, b) == IF b = 0 THEN a ELSE Gcd(b, a % b)

Abs(x) == IF x < 0 THEN -x ELSE x

\* <<n, d>> with d > 0 brought to lowest terms.
Norm(q) ==
  LET g == Gcd(Abs(q[1]), q[2])
  IN  <<q[1] \div g, q[2] \div g>>

RatOfInt(n) == <<n, 1>>
RatDiv(a, b) == Norm(<<a, b>>)
RatMulInt(k, q) == Norm(<<k * q[1], q[2]>>)
RatNeg(q) == <<-q[1], q[2]>>
RatLess(p, q) == p[1] * q[2] < q[1] * p[2]
RatSub(p, q) == Norm(<<p[1] * q[2] - q[1] * p[2], p[2] * q[2]>>)
\* Python's q % 360.0: the result lies in [0, 360).
RatMod(q, m) == Norm(<<q[1] % (m * q[2]), q[2]>>)

\* n / gcd(n, 360) is a power of two: 360 / n is a dyadic rational.
RECURSIVE IsPowerOfTwo(_)
IsPowerOfTwo(n) == IF n = 1 THEN TRUE
                   ELSE IF n % 2 = 1 THEN FALSE ELSE IsPowerOfTwo(n \div 2)

IsBinaryExact(n) == IsPowerOfTwo(n \div Gcd(n, FullTurn))

FrameCounts == {n \in 1..MaxFrames : IsBinaryExact(n)} \cup {ConfiguredFrames}

\* ------------------------------------------------------------------ images

Modes == {"L", "LA", "RGB", "RGBA"}

\* Whether a colour mode carries an alpha band.
HasAlpha(mode) == mode \in {"LA", "RGBA"}

\* Two pixel values per mode: a background and a foreground.
Background(mode) ==
  CASE mode = "L"    -> <<0>>
    [] mode = "LA"   -> <<0, 0>>
    [] mode = "RGB"  -> <<0, 0, 0>>
    [] mode = "RGBA" -> <<0, 0, 0, 0>>

Foreground(mode) ==
  CASE mode = "L"    -> <<255>>
    [] mode = "LA"   -> <<255, 128>>
    [] mode = "RGB"  -> <<255, 0, 0>>
    [] mode = "RGBA" -> <<255, 0, 0, 255>>

\* The pixel data of the input images: all background, all foreground, or a
\* single foreground pixel on background.
PatternData(mode, n) ==
  {[k \in 1..n |-> Background(mode)], [k \in 1..n |-> Foreground(mode)]}
    \cup {[k \in 1..n |-> IF k = p THEN Foreground(mode) ELSE Background(mode)] :
            p \in 1..n}

ImagesOf(m, w, h) ==
  {[mode |-> m, size |-> <<w, h>>, data |-> d, ops |-> <<>>] :
     d \in PatternData(m, w * h)}

InputImages ==
  UNION {ImagesOf(m, w, h) : m \in Modes, w \in 1..MaxDim, h \in 1..MaxDim}

\* The value of a name that is not bound to an image yet.
NoImage == [mode |-> "", size |-> <<0, 0>>, data |-> <<>>, ops |-> <<>>]

Width(im) == im.size[1]
Height(im) == im.size[2]

\* One pixel taken to RGBA, as Image.convert('RGBA') does for each mode.
PixelToRGBA(mode, px) ==
  CASE mode = "L"    -> <<px[1], px[1], px[1], 255>>
    [] mode = "LA"   -> <<px[1], px[1], px[1], px[2]>>
    [] mode = "RGB"  -> <<px[1], px[2], px[3], 255>>
    [] mode = "RGBA" -> px

\* logo.convert('RGBA'): a new image of the same size, every pixel converted.
ConvertRGBA(im) ==
  [mode |-> "RGBA",
   size |-> im.size,
   data |-> [k \in 1..Len(im.data) |-> PixelToRGBA(im.mode, im.data[k])],
   ops  |-> im.ops]

\* The test of line 8.
NeedsConvert_AlphaAware(im) == ~HasAlpha(im.mode)
NeedsConvert(im) == im.mode # "RGBA"

\* Lines 8-9 as a function of the loaded image.
Normalize_Discarded(im) == im
Normalize(im) == IF NeedsConvert(im) THEN ConvertRGBA(im) ELSE im

\* Every channel of every pixel is 0 (for RGBA: fully transparent black).
IsZeroPixel(px) == \A c \in 1..Len(px) : px[c] = 0
AllZero(im) == im.ops = <<>> /\ \A k \in 1..Len(im.data) : IsZeroPixel(im.data[k])

\* Image.transpose(ROTATE_180): out(x, y) = in(w-1-x, h-1-y).
Transpose180(im) ==
  LET n == Len(im.data)
  IN  [im EXCEPT !.data = [k \in 1..n |-> im.data[n + 1 - k]]]

\* Image.transpose(ROTATE_90), counter-clockwise: out(x, y) = in(w-1-y, x),
\* the output being h wide and w high.
Transpose90(im) ==
  LET w == Width(im)
      h == Height(im)
  IN  [im EXCEPT !.size = <<h, w>>,
                 !.data = [k \in 1..(w * h) |->
                             LET ox == (k - 1) % h
                                 oy == (k - 1) \div h
                             IN  im.data[ox * w + (w - 1 - oy) + 1]]]

\* Image.transpose(ROTATE_270), clockwise: out(x, y) = in(y, h-1-x).
Transpose270(im) ==
  LET w == Width(im)
      h == Height(im)
  IN  [im EXCEPT !.size = <<h, w>>,
                 !.data = [k \in 1..(w * h) |->
                             LET ox == (k - 1) % h
                                 oy == (k - 1) \div h
                             IN  im.data[(h - 1 - ox) * w + oy + 1]]]

\* The affine transform with bicubic resampling on a canvas of the input's
\* size, the area outside the source filled with zeros.  A zero image
\* resamples to itself; any other result is recorded, not computed.
Resample(im, a) ==
  IF AllZero(im) THEN im ELSE [im EXCEPT !.ops = Append(@, a)]

\* Image.rotate(angle, resample=BICUBIC, expand=True): the quarter turns
\* take the transpose path whatever the shape, and the canvas grows.
Rotate_Expand(im, angle) ==
  LET a == RatMod(angle, FullTurn)
  IN  IF a = RatOfInt(0) THEN im
      ELSE IF a = RatOfInt(180) /\ im.ops = <<>> THEN Transpose180(im)
      ELSE IF a = RatOfInt(90) /\ im.ops = <<>> THEN Transpose90(im)
      ELSE IF a = RatOfInt(270) /\ im.ops = <<>> THEN Transpose270(im)
      ELSE [Resample(im, a) EXCEPT !.size = <<Width(im) + 1, Height(im) + 1>>]

\* Image.rotate(angle, resample=BICUBIC, expand=False): the angle is taken
\* modulo 360; 0 returns a copy, 180 and (on a square image) 90 and 270 are
\* exact transposes, every other angle is resampled.  The size is kept.
Rotate(im, angle) ==
  LET a == RatMod(angle, FullTurn)
  IN  IF a = RatOfInt(0) THEN im
      ELSE IF a = RatOfInt(180) /\ im.ops = <<>> THEN Transpose180(im)
      ELSE IF a = RatOfInt(90) /\ Width(im) = Height(im) /\ im.ops = <<>>
        THEN Transpose90(im)
      ELSE IF a = RatOfInt(270) /\ Width(im) = Height(im) /\ im.ops = <<>>
        THEN Transpose270(im)
      ELSE Resample(im, a)

\* angle = i * (360 / num_frames), line 16.
Angle_FromOne(k, n) == RatMulInt(k + 1, RatDiv(FullTurn, n))
Angle(k, n) == RatMulInt(k, RatDiv(FullTurn, n))

\* The argument handed to rotate, line 18: -angle.
RotateArg(a) == RatNeg(a)

\* ---------------------------------------------------------------- GIF file

\* The images handed to the encoder, lines 23 and 26: frames[0] followed by
\* append_images = frames[1:].
SavedSequence_AppendAll(fs) == <<fs[1]>> \o fs
SavedSequence(fs) == <<fs[1]>> \o Tail(fs)

\* The GIF writer keeps a frame only when it differs from the frame kept
\* last, which is the frame just before it; a frame identical to it is
\* dropped and adds its duration to that of the kept frame.
MergeFrames(fs, d) ==
  LET IsStart(k) == k = 1 \/ fs[k] # fs[k - 1]
      starts == SelectSeq([k \in 1..Len(fs) |-> k], IsStart)
      runEnd(j) == IF j = Len(starts) THEN Len(fs) ELSE starts[j + 1] - 1
  IN  [j \in 1..Len(starts) |->
         [im |-> fs[starts[j]], duration |-> d * (runEnd(j) - starts[j] + 1)]]

\* A GIF stores a frame's delay in hundredths of a second; a reader gives
\* it back in milliseconds.
GifDuration(d) == (d \div 10) * 10

\* What a reader finds in the file written by save(save_all=True, ...).
GifFile(fs, d, lp) ==
  LET kept == MergeFrames(fs, d)
  IN  [state  |-> "written",
       frames |-> [k \in 1..Len(kept) |->
                     [im |-> kept[k].im, duration |-> GifDuration(kept[k].duration)]],
       loop   |-> lp]

\* A path with no file, and a file this run has not written.
NoLoop == 0 - 1
FileIn(state) == [state |-> state, frames |-> <<>>, loop |-> NoLoop]

\* The text printed on line 32: the literal prefix of the f-string, as its
\* Unicode code points (seven CJK characters, a colon, a space), followed by
\* the output path, which is ASCII.
ConfirmationPrefix == <<26059, 36716, 21160, 30011, 24050, 21019, 24314, 58, 32>>
Confirmation == [text |-> ConfirmationPrefix, path |-> output_path]

\* What standard output may be: a stream with one of three encodings, a
\* closed descriptor (sys.stdout is None), or a buffered stream onto a full
\* device, where the write fails only when the interpreter flushes at exit.
Stdouts == {"utf-8", "ascii", "latin-1", "closed", "full"}

\* The largest code point the stream's encoding can encode.
MaxCodePoint(enc) ==
  CASE enc = "ascii"   -> 127
    [] enc = "latin-1" -> 255
    [] OTHER           -> 1114111

\* Whether print can encode the message for the stream.
CanEncode(enc, msg) == \A k \in 1..Len(msg.text) : msg.text[k] <= MaxCodePoint(enc)

\* The exit status while the script is still running.
Running == 0 - 1

\* ------------------------------------------------------------------- state

VARIABLES
  pc,          \* the stage reached: Start, Loaded, Normalized, FramesGenerated,
               \* Encoded, Done, or Failed
  failedAt,    \* the step that raised, "" while none has
  infile,      \* the file at input_path: [kind, im]
  outfile,     \* the file at output_path: [state, frames, loop]
  outOpens,    \* how many times output_path was opened for writing
  num_frames,  \* line 13
  logo,        \* line 5, rebound on line 9
  pending,     \* logo's pixel data is still to be decoded from the file
  converted,   \* whether logo.convert was called
  frames,      \* line 12
  i,           \* the loop variable, -1 before the first iteration
  angle,       \* line 16, <<>> before the first iteration
  printed,     \* what reached standard output
  stdout,      \* the standard output the process was started with
  exitStatus   \* the process's exit status, Running until it ends

vars == <<pc, failedAt, infile, outfile, outOpens, num_frames, logo, pending,
          converted, frames, i, angle, printed, stdout, exitStatus>>

\* The files the run may find at input_path: none, one that is no image, an
\* image whose header reads but whose pixel data is cut short, a sound image.
InputFiles ==
  {[kind |-> k, im |-> NoImage] : k \in {"missing", "unidentified"}}
    \cup {[kind |-> k, im |-> im] : k \in {"truncated", "image"}, im \in InputImages}

Init ==
  /\ pc = "Start"
  /\ failedAt = ""
  /\ infile \in InputFiles
  /\ outfile \in {FileIn("absent"), FileIn("old")}
  /\ outOpens = 0
  /\ num_frames \in FrameCounts
  /\ logo = NoImage
  /\ pending = FALSE
  /\ converted = FALSE
  /\ frames = <<>>
  /\ i = 0 - 1
  /\ angle = <<>>
  /\ printed = <<>>
  /\ stdout \in Stdouts
  /\ exitStatus = Running

\* An exception nobody catches: the run ends at this step, exit status 1.
Raise_Retry(step) ==
  /\ pc' = pc
  /\ failedAt' = step
  /\ exitStatus' = exitStatus

Raise(step) ==
  /\ pc' = "Failed"
  /\ failedAt' = step
  /\ exitStatus' = 1

\* Decoding logo's pixel data raises: Image.open read only the header.
DecodeFails_Tolerant == FALSE
DecodeFails == pending /\ infile.kind = "truncated"

\* Line 5: Image.open identifies the file and reads its header.
Load ==
  /\ pc = "Start"
  /\ IF infile.kind \in {"missing", "unidentified"}
       THEN /\ Raise("Load")
            /\ UNCHANGED <<logo, pending>>
       ELSE /\ pc' = "Loaded"
            /\ logo' = infile.im
            /\ pending' = TRUE
            /\ UNCHANGED <<failedAt, exitStatus, exitStatus>>
  /\ UNCHANGED <<infile, outfile, outOpens, num_frames, converted, frames, i,
                 angle, printed, stdout>>

\* Lines 8-9: convert reads the pixels and returns a new image.
NormalizeMode ==
  /\ pc = "Loaded"
  /\ IF NeedsConvert(logo)
       THEN IF DecodeFails
              THEN /\ Raise("Normalize")
                   /\ UNCHANGED <<logo, pending, converted>>
              ELSE /\ pc' = "Normalized"
                   /\ logo' = Normalize(logo)
                   /\ pending' = FALSE
                   /\ converted' = TRUE
                   /\ UNCHANGED <<failedAt, exitStatus, exitStatus>>
       ELSE /\ pc' = "Normalized"
            /\ UNCHANGED <<failedAt, exitStatus, logo, pending, converted>>
  /\ UNCHANGED <<infile, outfile, outOpens, num_frames, frames, i, angle,
                 printed, stdout>>

\* for i in range(num_frames): whether another index follows ix.
LoopContinues_OneShort(ix, n) == ix + 1 < n - 1
LoopContinues(ix, n) == ix + 1 < n

\* The image rotate is called on, line 18: always logo.
RotationSource_Previous(im, fs) == IF fs = <<>> THEN im ELSE fs[Len(fs)]
RotationSource(im, fs) == im

\* Lines 15-19, one iteration: rotate reads the pixels and returns a new
\* image, which is appended.
GenerateFrame ==
  /\ pc = "Normalized"
  /\ LoopContinues(i, num_frames)
  /\ i' = i + 1
  /\ angle' = Angle(i', num_frames)
  /\ IF DecodeFails
       THEN /\ Raise("GenerateFrames")
            /\ UNCHANGED <<frames, pending>>
       ELSE /\ frames' = Append(frames,
                                Rotate(RotationSource(logo, frames), RotateArg(angle')))
            /\ pending' = FALSE
            /\ UNCHANGED <<pc, failedAt, exitStatus>>
  /\ UNCHANGED <<infile, outfile, outOpens, num_frames, logo, converted, printed,
                 stdout>>

\* The range is exhausted: control leaves the loop.
LoopExit ==
  /\ pc = "Normalized"
  /\ ~LoopContinues(i, num_frames)
  /\ pc' = "FramesGenerated"
  /\ UNCHANGED <<failedAt, exitStatus, infile, outfile, outOpens, num_frames, logo, pending,
                 converted, frames, i, angle, printed, stdout>>

\* What the file system and the encoder may answer to save.
SaveOutcomes == {"ok", "unwritable", "encoder_error"}

\* What a failed encoding leaves at the path: a partial file, or nothing when
\* the library removes the file it had just created.
LeftBehind(out) == IF out.state = "absent" THEN {"partial", "absent"} ELSE {"partial"}

\* Lines 22-30: frames[0].save opens output_path for writing, then encodes.
Encode ==
  /\ pc = "FramesGenerated"
  /\ IF frames = <<>>
       THEN /\ Raise("Encode")
            /\ UNCHANGED <<outfile, outOpens>>
       ELSE \E outcome \in SaveOutcomes :
              CASE outcome = "unwritable" ->
                     /\ Raise("Encode")
                     /\ UNCHANGED <<outfile, outOpens>>
                [] outcome = "encoder_error" ->
                     /\ Raise("Encode")
                     /\ outOpens' = outOpens + 1
                     /\ \E st \in LeftBehind(outfile) : outfile' = FileIn(st)
                [] outcome = "ok" ->
                     /\ pc' = "Encoded"
                     /\ outOpens' = outOpens + 1
                     /\ outfile' = GifFile(SavedSequence(frames), duration, loop)
                     /\ UNCHANGED <<failedAt, exitStatus, exitStatus>>
  /\ UNCHANGED <<infile, num_frames, logo, pending, converted, frames, i, angle,
                 printed, stdout>>

\* The stage from which the confirmation is printed.
PrintStages_Any == {"Encoded", "Failed"}
PrintStages == {"Encoded"}

\* Line 32 and the end of the script.  On a closed standard output print
\* does nothing; text the stream's encoding cannot encode raises
\* UnicodeEncodeError; on a full device the text stays in the buffer and
\* the flush at exit fails (exit status 120); otherwise the text is
\* written.
PrintConfirmation ==
  /\ pc \in PrintStages
  /\ CASE stdout = "closed" ->
            /\ pc' = "Done"
            /\ exitStatus' = 0
            /\ UNCHANGED <<failedAt, printed>>
       [] stdout # "closed" /\ ~CanEncode(stdout, Confirmation) ->
            /\ Raise("Print")
            /\ UNCHANGED printed
       [] stdout = "full" ->
            /\ pc' = "Done"
            /\ exitStatus' = 120
            /\ UNCHANGED <<failedAt, printed>>
       [] OTHER ->
            /\ pc' = "Done"
            /\ exitStatus' = 0
            /\ printed' = Append(printed, Confirmation)
            /\ UNCHANGED failedAt
  /\ UNCHANGED <<infile, outfile, outOpens, num_frames, logo, pending, converted,
                 frames, i, angle, stdout>>

Next ==
  \/ Load
  \/ NormalizeMode
  \/ GenerateFrame
  \/ LoopExit
  \/ Encode
  \/ PrintConfirmation

Spec == Init /\ [][Next]_vars

\* The interpreter runs the script to its end: a step that can be taken is.
FairSpec == Spec /\ WF_vars(Next)

\* ------------------------------------------------------------- properties

\* The spec's angle of frame k out of n: k * 360 / n.
SpecAngle(k, n) == Norm(<<k * FullTurn, n>>)

\* Lines 8-9 have run.
NormalizeDone ==
  \/ pc \in {"Normalized", "FramesGenerated", "Encoded", "Done"}
  \/ failedAt \in {"GenerateFrames", "Encode", "Print"}

\* The loop of lines 15-19 has run to its end.
LoopDone ==
  \/ pc \in {"FramesGenerated", "Encoded", "Done"}
  \/ failedAt \in {"Encode", "Print"}

\* The save of lines 23-30 has returned.
SaveDone == pc \in {"Encoded", "Done"} \/ failedAt = "Print"

\* C1: once the loop has ended the frame list holds exactly num_frames
\* frames, and whenever the list is not empty its first frame is the
\* normalized input image, pixel for pixel.
C1_FrameCountAndFirstFrame ==
  /\ Len(frames) <= num_frames
  /\ LoopDone => Len(frames) = num_frames
  /\ frames # <<>> => frames[1] = Normalize(infile.im)

C1_Witness ==
  /\ pc = "FramesGenerated"
  /\ num_frames = ConfiguredFrames
  /\ Len(frames) = ConfiguredFrames
  /\ infile.im.mode = "RGB"

\* C2: the frame at index k is the normalized image rotated by minus
\* k * 360 / num_frames; these angles are spaced 360 / num_frames apart,
\* increase strictly, stay below 360, and the step after the last gives 360,
\* whose rotation is frame 0 again.
C2_AnglesEvenlySpaced ==
  /\ \A k \in 1..Len(frames) :
       frames[k] = Rotate(logo, RatNeg(SpecAngle(k - 1, num_frames)))
  /\ i >= 0 => angle = SpecAngle(i, num_frames)
  /\ \A k \in 0..(num_frames - 1) :
       /\ Angle(k, num_frames) = SpecAngle(k, num_frames)
       /\ RatLess(Angle(k, num_frames), RatOfInt(FullTurn))
       /\ RatLess(Angle(k, num_frames), Angle(k + 1, num_frames))
       /\ RatSub(Angle(k + 1, num_frames), Angle(k, num_frames))
            = RatDiv(FullTurn, num_frames)
  /\ Angle(0, num_frames) = RatOfInt(0)
  /\ Angle(num_frames, num_frames) = RatOfInt(FullTurn)
  /\ frames # <<>> =>
       Rotate(logo, RotateArg(Angle(num_frames, num_frames))) = frames[1]

C2_Witness ==
  /\ num_frames = ConfiguredFrames
  /\ Len(frames) = ConfiguredFrames
  /\ angle = RatOfInt(350)
  /\ frames[2] # frames[1]
  /\ frames[2].ops = <<RatOfInt(350)>>

\* C3 as stated: whenever the input is missing or cannot be decoded, the run
\* gets no further than the Load step, fails there, and writes nothing.
C3_UndecodableFailsAtLoad ==
  infile.kind # "image" =>
    /\ pc \in {"Start", "Failed"}
    /\ pc = "Failed" => failedAt = "Load"
    /\ outOpens = 0

\* What holds in every state of a run whose input is missing or undecodable.
C3_BadInputState ==
  /\ infile.kind \in {"missing", "unidentified"} =>
       /\ pc \in {"Start", "Failed"}
       /\ pc = "Failed" => failedAt = "Load"
  /\ infile.kind = "truncated" =>
       /\ pc \in {"Start", "Loaded", "Normalized", "Failed"}
       /\ pc = "Failed" =>
            failedAt = (IF NeedsConvert(infile.im) THEN "Normalize"
                                                   ELSE "GenerateFrames")
       /\ frames = <<>>
  /\ infile.kind # "image" =>
       /\ outOpens = 0
       /\ outfile.state \in {"absent", "old"}

\* C3, amended: a missing or unidentifiable input fails at Load; an input
\* whose header reads but whose pixel data does not decode passes Load and
\* fails at the first step that reads pixels (Normalize when a conversion
\* is due, else the first frame); in each case the run ends before Encode
\* and no step of it touches the output path.
C3_BadInputNeverWrites ==
  /\ []C3_BadInputState
  /\ [][infile.kind # "image" => outfile' = outfile /\ outOpens' = outOpens]_vars

C3_Witness ==
  /\ infile.kind = "truncated"
  /\ infile.im.mode = "RGBA"
  /\ pc = "Failed"
  /\ failedAt = "GenerateFrames"
  /\ outfile = FileIn("old")

\* The stage that follows each stage.
NextStage(s) ==
  CASE s = "Start"           -> "Loaded"
    [] s = "Loaded"          -> "Normalized"
    [] s = "Normalized"      -> "FramesGenerated"
    [] s = "FramesGenerated" -> "Encoded"
    [] s = "Encoded"         -> "Done"
    [] OTHER                 -> "none"

Terminated == pc \in {"Done", "Failed"}

\* A step moves to the next stage, or fails, or is one more iteration of the
\* loop inside Normalized; a terminated run takes no step.
StageStep ==
  /\ ~Terminated
  /\ \/ pc' = NextStage(pc)
     \/ pc' = "Failed" /\ failedAt' # ""
     \/ pc = "Normalized" /\ pc' = "Normalized" /\ Len(frames') = Len(frames) + 1
  /\ pc' = "Failed" <=> failedAt' # ""

\* C4: the run goes through Start, Loaded, Normalized, FramesGenerated,
\* Encoded, Done in this order without skipping or returning; a failure ends
\* it at once; and every run ends, in Done or in Failed.
C4_LinearStages ==
  /\ [][StageStep]_vars
  /\ <>Terminated

C4_Witness ==
  /\ pc = "Done"
  /\ failedAt = ""
  /\ Len(frames) = num_frames
  /\ outfile.state = "written"

\* C5 as stated: the image is converted exactly when its mode has no alpha
\* band, and an image whose mode has one comes out of Normalize unchanged.
C5_AlphaModesPassThrough ==
  NormalizeDone =>
    /\ converted <=> ~HasAlpha(infile.im.mode)
    /\ HasAlpha(infile.im.mode) => logo = infile.im

\* C5, amended: the image is converted exactly when its mode is not RGBA,
\* also when that mode already has an alpha band (LA); an RGBA image comes
\* out unchanged, and Normalize applied to its own result changes nothing.
C5_NonRGBAConverted ==
  NormalizeDone =>
    /\ converted <=> infile.im.mode # "RGBA"
    /\ infile.im.mode = "RGBA" => logo = infile.im
    /\ infile.im.mode # "RGBA" =>
         /\ logo.mode = "RGBA"
         /\ logo.size = infile.im.size
         /\ \A k \in 1..Len(logo.data) :
              logo.data[k] = PixelToRGBA(infile.im.mode, infile.im.data[k])
    /\ Normalize(logo) = logo

C5_Witness ==
  /\ pc = "Normalized"
  /\ infile.im.mode = "LA"
  /\ converted
  /\ logo # infile.im

\* C6: whatever the source mode, once Normalize has run the image is RGBA;
\* frames exist only after that, and every frame is RGBA.
C6_FramesCarryAlpha ==
  /\ NormalizeDone => logo.mode = "RGBA"
  /\ frames # <<>> => NormalizeDone
  /\ \A k \in 1..Len(frames) : frames[k].mode = "RGBA" /\ HasAlpha(frames[k].mode)

C6_Witness ==
  /\ infile.im.mode = "RGB"
  /\ num_frames > 1
  /\ Len(frames) = num_frames

\* The durations of the first j frames of a file, added up.
RECURSIVE TotalDuration(_, _)
TotalDuration(f, j) == IF j = 0 THEN 0 ELSE f[j].duration + TotalDuration(f, j - 1)

\* The file frame on show during the k-th slot of `duration` milliseconds.
ShownAt(f, k) ==
  CHOOSE j \in 1..Len(f) :
    /\ TotalDuration(f, j - 1) < k * duration
    /\ k * duration <= TotalDuration(f, j)

NoRepeatedFrame == \A k \in 1..(Len(frames) - 1) : frames[k] # frames[k + 1]

\* C7 as stated: after a successful save the file holds exactly the
\* num_frames generated frames in index order, each with the configured
\* duration, and loop = 0.
C7_AllFramesWritten ==
  SaveDone =>
    /\ Len(outfile.frames) = num_frames
    /\ \A j \in 1..Len(outfile.frames) :
         outfile.frames[j] = [im |-> frames[j], duration |-> duration]
    /\ outfile.loop = loop

\* C7, amended: after a successful save the file holds the generated frames
\* in index order with every run of consecutive identical frames written as
\* one frame, and loop = 0.  It has between 1 and num_frames frames, no two
\* neighbours alike; when it keeps more than one frame, each is shown for
\* 50 times the length of its run, so playing the file shows frame k during
\* the k-th 50 ms; when no two consecutive generated frames are identical
\* the file holds exactly the num_frames frames, each with duration 50.
C7_FramesWrittenRunsMerged ==
  SaveDone =>
    LET f == outfile.frames
    IN  /\ outfile.state = "written"
        /\ outfile.loop = loop
        /\ Len(f) >= 1 /\ Len(f) <= num_frames
        /\ f[1].im = frames[1]
        /\ \A j \in 1..(Len(f) - 1) : f[j].im # f[j + 1].im
        /\ Len(f) = 1 => \A k \in 1..num_frames : frames[k] = f[1].im
        /\ Len(f) > 1 =>
             /\ \A j \in 1..Len(f) :
                  f[j].duration >= duration /\ f[j].duration % duration = 0
             /\ TotalDuration(f, Len(f)) = num_frames * duration
             /\ \A k \in 1..num_frames : frames[k] = f[ShownAt(f, k)].im
        /\ NoRepeatedFrame =>
             /\ Len(f) = num_frames
             /\ \A j \in 1..num_frames :
                  f[j] = [im |-> frames[j], duration |-> duration]

C7_Witness ==
  /\ pc = "Done"
  /\ num_frames = ConfiguredFrames
  /\ Len(outfile.frames) = ConfiguredFrames
  /\ outfile.frames[ConfiguredFrames].im = frames[ConfiguredFrames]
  /\ outfile.frames[ConfiguredFrames].duration = duration

\* C8: the normalized image and every frame have the input image's size.
C8_FrameSizeIsInputSize ==
  /\ NormalizeDone => logo.size = infile.im.size
  /\ \A k \in 1..Len(frames) : frames[k].size = infile.im.size

C8_Witness ==
  /\ Width(infile.im) # Height(infile.im)
  /\ num_frames = 4
  /\ Len(frames) = 4
  /\ frames[2].ops # <<>>

\* C9: from Normalize on, no step changes the normalized image, and a step
\* that changes the frame list appends one frame, the rotation of the
\* normalized image by the angle of the new index, leaving the frames
\* before it as they were.
C9_FramesFromLogoOnly ==
  [][NormalizeDone =>
       /\ logo' = logo
       /\ \/ frames' = frames
          \/ frames' = Append(frames,
                              Rotate(logo, RatNeg(SpecAngle(Len(frames), num_frames))))]_vars

C9_Witness ==
  /\ pc = "Done"
  /\ num_frames = 4
  /\ Len(frames) = 4
  /\ frames[3] # frames[1]
  /\ frames[3] # Rotate(frames[2], RatOfInt(0 - 180))

\* C10 as stated: the confirmation is printed only on success, and on
\* success, after the completed write, it is printed exactly once.
C10_PrintedOnceOnSuccess ==
  /\ printed # <<>> => pc = "Done"
  /\ pc = "Done" => Len(printed) = 1
  /\ pc = "Failed" => printed = <<>>

\* C10, amended: the confirmation, which carries the output path, is
\* printed at most once, only as the last step of a run that ends in Done
\* after a completed write of the output file, and never in a failed run.
\* A run that ends in Done has printed it exactly once when standard output
\* is an open stream that takes the text, and not at all when standard
\* output is closed or its device is full.  When the stream's encoding
\* cannot encode the text, print raises after the file was written: the run
\* fails at the print step and nothing is printed.
C10_ConfirmationOnlyOnSuccess ==
  /\ Len(printed) <= 1
  /\ printed # <<>> =>
       /\ pc = "Done"
       /\ printed = <<Confirmation>>
       /\ printed[1].path = output_path
       /\ stdout \notin {"closed", "full"}
       /\ exitStatus = 0
  /\ pc = "Done" =>
       /\ outfile.state = "written"
       /\ outOpens = 1
       /\ failedAt = ""
       /\ Len(printed) = (IF stdout \in {"closed", "full"} THEN 0 ELSE 1)
       /\ exitStatus = (IF stdout = "full" THEN 120 ELSE 0)
  /\ pc = "Failed" => printed = <<>> /\ exitStatus = 1
  /\ failedAt = "Print" =>
       /\ pc = "Failed"
       /\ stdout \in {"ascii", "latin-1"}
       /\ outfile.state = "written"
  /\ pc = "Done" => stdout \notin {"ascii", "latin-1"}
  /\ pc = "Encoded" => printed = <<>> /\ outfile.state = "written"

C10_Witness ==
  /\ pc = "Done"
  /\ stdout = "utf-8"
  /\ Len(printed) = 1
  /\ printed[1].text = ConfirmationPrefix
  /\ outfile.state = "written"

====
